---- MODULE Spec2Model ----
(***************************************************************************)
(* Model of lib/src/config/backends.rs: the conversion of a `fastly.toml`  *)
(* backends table into a BackendsConfig (TryFrom<Table> for BackendsConfig *)
(* and TryFrom<Table> for Backend).                                        *)
(*                                                                         *)
(* A toml Table is a map from keys to Values that iterates in key order;   *)
(* it is modelled as a function whose domain is the set of keys, iterated  *)
(* along KeyOrder.  A Rust String is a sequence of characters.             *)
(***************************************************************************)
EXTENDS Integers, Sequences, FiniteSets, TLC

\* ------------------------------------------------------------------ bounds
MaxStrLen == 1
MaxBackends == 2
NumConversions == 2

\* ------------------------------------------------------- values and tables
\* Option<T>
None == [some |-> FALSE]
Some(x) == [some |-> TRUE, v |-> x]

\* Result<T, E>
Ok(x) == [ok |-> TRUE, v |-> x]
Err(x) == [ok |-> FALSE, e |-> x]

\* A local that has not been assigned yet.
NotYet == [unset |-> TRUE]

\* toml::Value, the variants that occur
String(s) == [kind |-> "String", val |-> s]
Boolean(b) == [kind |-> "Boolean", val |-> b]
Integer(i) == [kind |-> "Integer", val |-> i]
TableValue(t) == [kind |-> "Table", val |-> t]

\* Characters: a visible ASCII letter, a space, and the control character
\* DEL (0x7f), which is neither whitespace nor a legal header or URI byte.
Chars == {"a", " ", "DEL"}
Whitespace == {" "}
UriChars == {"a"}
HeaderValueChars == {"a", " "}

Strings == UNION {[1..n -> Chars] : n \in 0..MaxStrLen}

\* Mutant: url is extracted after override_host.
FieldOrderUrlSecond == <<"override_host", "url", "cert_host", "use_sni", "grpc">>

\* Mutant: grpc is extracted before use_sni.
FieldOrderGrpcFirst == <<"url", "override_host", "cert_host", "grpc", "use_sni">>

\* The keys of an entry that the parser knows, in the order it extracts them.
FieldOrder == <<"url", "override_host", "cert_host", "use_sni", "grpc">>
RecognizedKeys == {FieldOrder[i] : i \in DOMAIN FieldOrder}
ExtraKeys == {"timeout", "zone"}

\* Iteration order of a Table's keys (the map is ordered by key).
KeyOrder == <<"a", "b", "c", "cert_host", "grpc", "override_host",
              "timeout", "url", "use_sni", "zone">>
KeyIndex(k) == CHOOSE i \in DOMAIN KeyOrder : KeyOrder[i] = k

\* Table::keys().next(): the first key in iteration order.
FirstKey(table) ==
    CHOOSE k \in DOMAIN table : \A j \in DOMAIN table : KeyIndex(k) <= KeyIndex(j)

\* Mutant: the table is iterated from its last key to its first.
RECURSIVE KeysLastFirst(_)
KeysLastFirst(table) ==
    IF DOMAIN table = {} THEN <<>>
    ELSE LET k == CHOOSE i \in DOMAIN table :
                    \A j \in DOMAIN table : KeyIndex(j) <= KeyIndex(i)
         IN <<k>> \o KeysLastFirst([j \in DOMAIN table \ {k} |-> table[j]])

RECURSIVE Keys(_)
\* Table::into_iter(), as the sequence of keys it yields.
Keys(table) ==
    IF DOMAIN table = {} THEN <<>>
    ELSE LET k == FirstKey(table)
         IN <<k>> \o Keys([j \in DOMAIN table \ {k} |-> table[j]])

\* Table::remove(key): the value removed, and the table that is left.
Removed(table, key) == IF key \in DOMAIN table THEN Some(table[key]) ELSE None
\* Mutant: the field is read but left in the table.
RemoveNothing(table, key) == table

Remove(table, key) == [j \in DOMAIN table \ {key} |-> table[j]]

\* Mutant: the map is replaced by the new pair instead of extended with it.
InsertAlone(map, key, value) == [j \in {key} |-> value]

\* HashMap::insert
Insert(map, key, value) ==
    [j \in DOMAIN map \cup {key} |-> IF j = key THEN value ELSE map[j]]

EmptyMap == [j \in {} |-> NotYet]

\* ------------------------------------------------------------ str helpers
RECURSIVE TrimStart(_)
TrimStart(s) ==
    IF s # <<>> /\ Head(s) \in Whitespace THEN TrimStart(Tail(s)) ELSE s

RECURSIVE TrimEnd(_)
TrimEnd(s) ==
    IF s # <<>> /\ s[Len(s)] \in Whitespace
    THEN TrimEnd(SubSeq(s, 1, Len(s) - 1)) ELSE s

\* Mutant: no trimming.
TrimNothing(s) == s

\* str::trim
Trim(s) == TrimEnd(TrimStart(s))

\* url.parse::<Uri>(): empty input and any byte outside the URI character
\* table are errors; otherwise the Uri keeps the text.
ParseUri(s) ==
    IF s = <<>> \/ \E i \in DOMAIN s : s[i] \notin UriChars
    THEN Err([err |-> "From", source |-> "InvalidUri"])
    ELSE Ok([uri |-> s])

\* HeaderValue::from_str: every byte must be a legal header value byte.
HeaderValueFromStr(s) ==
    IF \E i \in DOMAIN s : s[i] \notin HeaderValueChars
    THEN Err([err |-> "From", source |-> "InvalidHeaderValue"])
    ELSE Ok([header |-> s])

\* ------------------------------------------------------------------ inputs
Opt(S) == {None} \cup {Some(x) : x \in S}

\* An entry table with the given optional fields and the extra keys x.
MkEntry(u, o, c, s, g, x) ==
    LET opt == [url |-> u, override_host |-> o, cert_host |-> c,
                use_sni |-> s, grpc |-> g]
        present == {k \in RecognizedKeys : opt[k].some} \cup x
    IN [k \in present |-> IF k \in x THEN Integer(30) ELSE opt[k].v]

\* What a string-typed field may hold: any string, or a value of another type.
StringField == {String(s) : s \in Strings} \cup {Integer(30)}
\* What a boolean-typed field may hold.
BoolField == {Boolean(TRUE), Boolean(FALSE), String(<<"a">>)}

\* Every entry over the field values above.
Entries ==
    {MkEntry(u, o, c, s, g, x) :
        u \in Opt(StringField), o \in Opt(StringField), c \in Opt(StringField),
        s \in Opt(BoolField), g \in Opt(BoolField), x \in SUBSET ExtraKeys}

\* The entries used in tables of several backends: one or two values for
\* each way an entry can pass or fail.
SampleEntries ==
    {MkEntry(u, o, None, None, g, x) :
        u \in {None, Some(String(<<"a">>)), Some(Integer(30))},
        o \in {None, Some(String(<<" ">>))},
        g \in {None, Some(Boolean(TRUE))},
        x \in {{}, ExtraKeys}}

Names == {KeyOrder[i] : i \in 1..MaxBackends}

\* Outer tables: up to MaxBackends named values, a value being an entry
\* table or something that is not a table.
Tables ==
    UNION {[N -> {TableValue(e) : e \in SampleEntries} \cup {Integer(30)}] :
             N \in SUBSET Names}

\* Outer tables of one backend, over every entry.
SingleTables == {[n \in {"a"} |-> TableValue(e)] : e \in Entries}

\* ------------------------------------------------------------------- state
VARIABLES
    table,          \* the outer Table handed to BackendsConfig::try_from
    iter,           \* toml.into_iter(): the names not yet yielded
    collected,      \* the HashMap that collect() is building
    name,           \* process_entry: the name of the entry being processed
    toml,           \* Backend::try_from: the working entry table
    uri, override_host, cert_host, use_sni, grpc,   \* its locals
    ret,            \* the Result that Backend::try_from / into_table returned
    result,         \* the Result of BackendsConfig::try_from
    outcomes,       \* the results of the earlier conversions of `table`
    pc              \* where the conversion stands

vars == <<table, iter, collected, name, toml, uri, override_host, cert_host,
          use_sni, grpc, ret, result, outcomes, pc>>

locals == <<uri, override_host, cert_host, use_sni, grpc>>

Start(t) ==
    /\ table = t
    /\ iter = Keys(t)
    /\ collected = EmptyMap
    /\ name = NotYet
    /\ toml = NotYet
    /\ uri = NotYet /\ override_host = NotYet /\ cert_host = NotYet
    /\ use_sni = NotYet /\ grpc = NotYet
    /\ ret = NotYet
    /\ result = NotYet
    /\ pc = "collect"

Init == \E t \in Tables : Start(t) /\ outcomes = <<>>

InitEntry == \E t \in SingleTables : Start(t) /\ outcomes = <<>>

\* ------------------------------------------------------------ the parser
into_table(value) ==
    IF value.kind = "Table" THEN Ok(value.val)
    ELSE Err([err |-> "InvalidEntryType"])

check_for_unrecognized_keys(t) ==
    IF DOMAIN t # {}
    THEN Err([err |-> "UnrecognizedKey", key |-> FirstKey(t)])
    ELSE Ok(NotYet)

\* The step after field f of Backend::try_from.
After(f) ==
    LET i == CHOOSE j \in DOMAIN FieldOrder : FieldOrder[j] = f
    IN IF i < Len(FieldOrder) THEN FieldOrder[i + 1]
       ELSE "check_for_unrecognized_keys"

\* The closures applied to what toml.remove(..) returned.
UrlResult(removed) ==
    IF ~removed.some THEN Err([err |-> "MissingUrl"])
    ELSE IF removed.v.kind = "String" THEN ParseUri(removed.v.val)
    ELSE Err([err |-> "InvalidUrlEntry"])

OverrideHostResult(removed) ==
    IF ~removed.some THEN Ok(None)
    ELSE IF removed.v.kind = "String" /\ Trim(removed.v.val) # <<>>
    THEN LET h == HeaderValueFromStr(removed.v.val)
         IN IF h.ok THEN Ok(Some(h.v)) ELSE h
    ELSE IF removed.v.kind = "String" THEN Err([err |-> "EmptyOverrideHost"])
    ELSE Err([err |-> "InvalidOverrideHostEntry"])

CertHostResult(removed) ==
    IF ~removed.some THEN Ok(None)
    ELSE IF removed.v.kind = "String" /\ Trim(removed.v.val) # <<>>
    THEN Ok(Some(removed.v.val))
    ELSE IF removed.v.kind = "String" THEN Err([err |-> "EmptyCertHost"])
    ELSE Err([err |-> "InvalidCertHostEntry"])

\* Mutant: use_sni defaults to false.
UseSniResultDefaultFalse(removed) ==
    IF ~removed.some THEN Ok(FALSE)
    ELSE IF removed.v.kind = "Boolean" THEN Ok(removed.v.val)
    ELSE Err([err |-> "InvalidUseSniEntry"])

UseSniResult(removed) ==
    IF ~removed.some THEN Ok(TRUE)
    ELSE IF removed.v.kind = "Boolean" THEN Ok(removed.v.val)
    ELSE Err([err |-> "InvalidUseSniEntry"])

GrpcResult(removed) ==
    IF ~removed.some THEN Ok(FALSE)
    ELSE IF removed.v.kind = "Boolean" THEN Ok(removed.v.val)
    ELSE Err([err |-> "InvalidGrpcEntry"])

\* Mutant: client_cert is filled from cert_host.
NewBackendCertFromHost(u, o, c, s, g) ==
    [uri |-> u, override_host |-> o, cert_host |-> c, use_sni |-> s,
     grpc |-> g, client_cert |-> c, handler |-> None]

\* Ok(Self { .. }) at the end of Backend::try_from.
NewBackend(u, o, c, s, g) ==
    [uri |-> u, override_host |-> o, cert_host |-> c, use_sni |-> s,
     grpc |-> g, client_cert |-> None, handler |-> None]

\* collect(): the iterator is exhausted, every entry was Ok.
CollectDone ==
    /\ pc = "collect" /\ iter = <<>>
    /\ result' = Ok(collected)
    /\ pc' = "done"
    /\ UNCHANGED <<table, iter, collected, name, toml, locals, ret, outcomes>>

\* collect() pulls the next (name, defs) and process_entry starts:
\* into_table(defs), and on Ok the call of Backend::try_from.
ProcessEntry ==
    /\ pc = "collect" /\ iter # <<>>
    /\ name' = Head(iter)
    /\ iter' = Tail(iter)
    /\ LET t == into_table(table[Head(iter)])
       IN IF t.ok
          THEN /\ toml' = t.v
               /\ ret' = NotYet
               /\ pc' = FieldOrder[1]
          ELSE /\ toml' = NotYet
               /\ ret' = t
               /\ pc' = "return"
    /\ uri' = NotYet /\ override_host' = NotYet /\ cert_host' = NotYet
    /\ use_sni' = NotYet /\ grpc' = NotYet
    /\ UNCHANGED <<table, collected, result, outcomes>>

\* let uri = toml.remove("url")...?;
RemoveUrl ==
    /\ pc = "url"
    /\ toml' = Remove(toml, "url")
    /\ LET r == UrlResult(Removed(toml, "url"))
       IN IF r.ok
          THEN uri' = r.v /\ pc' = After("url") /\ ret' = ret
          ELSE uri' = uri /\ pc' = "return" /\ ret' = r
    /\ UNCHANGED <<table, iter, collected, name, override_host, cert_host,
                   use_sni, grpc, result, outcomes>>

\* let override_host = toml.remove("override_host")...?;
RemoveOverrideHost ==
    /\ pc = "override_host"
    /\ toml' = Remove(toml, "override_host")
    /\ LET r == OverrideHostResult(Removed(toml, "override_host"))
       IN IF r.ok
          THEN override_host' = r.v /\ pc' = After("override_host") /\ ret' = ret
          ELSE override_host' = override_host /\ pc' = "return" /\ ret' = r
    /\ UNCHANGED <<table, iter, collected, name, uri, cert_host, use_sni, grpc,
                   result, outcomes>>

\* let cert_host = toml.remove("cert_host")...?;
RemoveCertHost ==
    /\ pc = "cert_host"
    /\ toml' = Remove(toml, "cert_host")
    /\ LET r == CertHostResult(Removed(toml, "cert_host"))
       IN IF r.ok
          THEN cert_host' = r.v /\ pc' = After("cert_host") /\ ret' = ret
          ELSE cert_host' = cert_host /\ pc' = "return" /\ ret' = r
    /\ UNCHANGED <<table, iter, collected, name, uri, override_host, use_sni,
                   grpc, result, outcomes>>

\* let use_sni = toml.remove("use_sni")...?.unwrap_or(true);
RemoveUseSni ==
    /\ pc = "use_sni"
    /\ toml' = Remove(toml, "use_sni")
    /\ LET r == UseSniResult(Removed(toml, "use_sni"))
       IN IF r.ok
          THEN use_sni' = r.v /\ pc' = After("use_sni") /\ ret' = ret
          ELSE use_sni' = use_sni /\ pc' = "return" /\ ret' = r
    /\ UNCHANGED <<table, iter, collected, name, uri, override_host, cert_host,
                   grpc, result, outcomes>>

\* let grpc = toml.remove("grpc")...?.unwrap_or(false);
RemoveGrpc ==
    /\ pc = "grpc"
    /\ toml' = Remove(toml, "grpc")
    /\ LET r == GrpcResult(Removed(toml, "grpc"))
       IN IF r.ok
          THEN grpc' = r.v /\ pc' = After("grpc") /\ ret' = ret
          ELSE grpc' = grpc /\ pc' = "return" /\ ret' = r
    /\ UNCHANGED <<table, iter, collected, name, uri, override_host, cert_host,
                   use_sni, result, outcomes>>

\* Mutant: the leftover key reported is any of them, not the first.
CheckForUnrecognizedKeysAnyKey ==
    /\ pc = "check_for_unrecognized_keys"
    /\ IF DOMAIN toml = {}
       THEN ret' = Ok(NewBackend(uri, override_host, cert_host, use_sni, grpc))
       ELSE \E k \in DOMAIN toml : ret' = Err([err |-> "UnrecognizedKey", key |-> k])
    /\ pc' = "return"
    /\ UNCHANGED <<table, iter, collected, name, toml, locals, result, outcomes>>

\* check_for_unrecognized_keys(&toml)?; Ok(Self { .. })
CheckForUnrecognizedKeys ==
    /\ pc = "check_for_unrecognized_keys"
    /\ LET r == check_for_unrecognized_keys(toml)
       IN ret' = IF r.ok
                 THEN Ok(NewBackend(uri, override_host, cert_host, use_sni, grpc))
                 ELSE r
    /\ pc' = "return"
    /\ UNCHANGED <<table, iter, collected, name, toml, locals, result, outcomes>>

\* Mutant: a failed entry is skipped and the conversion goes on.
ProcessEntryReturnSkipping ==
    /\ pc = "return"
    /\ collected' = IF ret.ok THEN Insert(collected, name, ret.v) ELSE collected
    /\ pc' = "collect"
    /\ UNCHANGED <<table, iter, name, toml, locals, ret, result, outcomes>>

\* The tail of process_entry (map_err, map) and what collect() does with
\* the item: an Err ends the conversion, an Ok goes into the map.
ProcessEntryReturn ==
    /\ pc = "return"
    /\ IF ret.ok
       THEN /\ collected' = Insert(collected, name, ret.v)
            /\ result' = result
            /\ pc' = "collect"
       ELSE /\ collected' = collected
            /\ result' = Err([err |-> "InvalidBackendDefinition",
                              name |-> name, cause |-> ret.e])
            /\ pc' = "done"
    /\ UNCHANGED <<table, iter, name, toml, locals, ret, outcomes>>

\* The caller converts the same table once more.
ConvertAgain ==
    /\ pc = "done"
    /\ Len(outcomes) + 1 < NumConversions
    /\ outcomes' = Append(outcomes, result)
    /\ iter' = Keys(table)
    /\ collected' = EmptyMap
    /\ name' = NotYet
    /\ toml' = NotYet
    /\ uri' = NotYet /\ override_host' = NotYet /\ cert_host' = NotYet
    /\ use_sni' = NotYet /\ grpc' = NotYet
    /\ ret' = NotYet
    /\ result' = NotYet
    /\ pc' = "collect"
    /\ UNCHANGED table

BackendTryFrom ==
    \/ RemoveUrl
    \/ RemoveOverrideHost
    \/ RemoveCertHost
    \/ RemoveUseSni
    \/ RemoveGrpc
    \/ CheckForUnrecognizedKeys

NextEntry ==
    \/ ProcessEntry
    \/ BackendTryFrom
    \/ ProcessEntryReturn
    \/ CollectDone

Next ==
    \/ NextEntry
    \/ ConvertAgain

\* Tables of several backends, each converted NumConversions times.
Spec == Init /\ [][Next]_vars

\* One backend over every entry, converted once.
SpecEntry == InitEntry /\ [][NextEntry]_vars

\* ---------------------------------------------- what the claims speak about
\* The claims' own reading of an entry, stated on the input table alone.
ClaimedOrder == <<"url", "override_host", "cert_host", "use_sni", "grpc">>

Has(e, k) == k \in DOMAIN e
IsString(e, k) == Has(e, k) /\ e[k].kind = "String"
IsBlank(s) == \A i \in DOMAIN s : s[i] \in Whitespace
BlankField(e, k) == IsString(e, k) /\ IsBlank(e[k].val)
Unrecognized(e) == DOMAIN e \ {ClaimedOrder[i] : i \in DOMAIN ClaimedOrder}

FieldValid(e, k) ==
    CASE k = "url" ->
            /\ IsString(e, k) /\ e[k].val # <<>>
            /\ \A i \in DOMAIN e[k].val : e[k].val[i] \in UriChars
      [] k = "override_host" ->
            \/ ~Has(e, k)
            \/ /\ IsString(e, k) /\ ~IsBlank(e[k].val)
               /\ \A i \in DOMAIN e[k].val : e[k].val[i] \in HeaderValueChars
      [] k = "cert_host" ->
            ~Has(e, k) \/ (IsString(e, k) /\ ~IsBlank(e[k].val))
      [] OTHER -> ~Has(e, k) \/ e[k].kind = "Boolean"

\* The error of field k when it is not valid.
FieldError(e, k) ==
    CASE k = "url" ->
            IF ~Has(e, k) THEN [err |-> "MissingUrl"]
            ELSE IF ~IsString(e, k) THEN [err |-> "InvalidUrlEntry"]
            ELSE [err |-> "From", source |-> "InvalidUri"]
      [] k = "override_host" ->
            IF ~IsString(e, k) THEN [err |-> "InvalidOverrideHostEntry"]
            ELSE IF IsBlank(e[k].val) THEN [err |-> "EmptyOverrideHost"]
            ELSE [err |-> "From", source |-> "InvalidHeaderValue"]
      [] k = "cert_host" ->
            IF ~IsString(e, k) THEN [err |-> "InvalidCertHostEntry"]
            ELSE [err |-> "EmptyCertHost"]
      [] k = "use_sni" -> [err |-> "InvalidUseSniEntry"]
      [] OTHER -> [err |-> "InvalidGrpcEntry"]

FieldsValid(e) == \A i \in DOMAIN ClaimedOrder : FieldValid(e, ClaimedOrder[i])
InvalidAt(e) == {i \in DOMAIN ClaimedOrder : ~FieldValid(e, ClaimedOrder[i])}
FirstInvalid(e) == CHOOSE i \in InvalidAt(e) : \A j \in InvalidAt(e) : i <= j

EntryValid(value) ==
    /\ value.kind = "Table"
    /\ FieldsValid(value.val)
    /\ Unrecognized(value.val) = {}

\* The field-level error of an entry that is not valid.
EntryError(value) ==
    IF value.kind # "Table" THEN [err |-> "InvalidEntryType"]
    ELSE IF ~FieldsValid(value.val)
    THEN FieldError(value.val, ClaimedOrder[FirstInvalid(value.val)])
    ELSE [err |-> "UnrecognizedKey",
          key |-> CHOOSE k \in Unrecognized(value.val) :
                    \A j \in Unrecognized(value.val) : KeyIndex(k) <= KeyIndex(j)]

\* The Backend an entry describes.
EntryBackend(e) ==
    [uri |-> [uri |-> e["url"].val],
     override_host |-> IF Has(e, "override_host")
                       THEN Some([header |-> e["override_host"].val]) ELSE None,
     cert_host |-> IF Has(e, "cert_host") THEN Some(e["cert_host"].val) ELSE None,
     use_sni |-> IF Has(e, "use_sni") THEN e["use_sni"].val ELSE TRUE,
     grpc |-> IF Has(e, "grpc") THEN e["grpc"].val ELSE FALSE,
     client_cert |-> None,
     handler |-> None]

InvalidNames == {n \in DOMAIN table : ~EntryValid(table[n])}
ValidNames == {n \in DOMAIN table : EntryValid(table[n])}

\* Backend::try_from has returned for the entry `name`, which is a table.
Returned == pc = "return" /\ table[name].kind = "Table"
\* That entry, as it was given.
Entry == table[name].val

\* ------------------------------------------------------------------ claims

\* C1: BackendsConfig::try_from is all-or-nothing: when at least one entry of
\* the table fails its validation the result is an error that carries no map
\* at all, and an Ok map is produced only when every entry validates.
C1_AllOrNothing ==
    pc = "done" =>
        IF InvalidNames = {}
        THEN result.ok /\ DOMAIN result.v = DOMAIN table
        ELSE ~result.ok /\ DOMAIN result = {"ok", "e"}

\* C1 witness: a valid entry was already collected when a later entry
\* failed, and the conversion ended in an error.
C1_Witness ==
    /\ pc = "done" /\ ~result.ok
    /\ ValidNames # {} /\ DOMAIN collected = ValidNames

\* C2: a failed BackendsConfig::try_from returns InvalidBackendDefinition
\* whose name is the first entry, in iteration order, that fails validation
\* and whose err is that entry's own field-level error.
C2_FirstFailureNamed ==
    (pc = "done" /\ ~result.ok) =>
        /\ result.e.err = "InvalidBackendDefinition"
        /\ result.e.name \in InvalidNames
        /\ \A n \in InvalidNames : KeyIndex(result.e.name) <= KeyIndex(n)
        /\ result.e.cause = EntryError(table[result.e.name])

\* C2 witness: two entries, only the second invalid, and the error names
\* the second.
C2_Witness ==
    /\ pc = "done" /\ ~result.ok
    /\ DOMAIN table = {"a", "b"}
    /\ InvalidNames = {"b"}
    /\ result.e.name = "b"

\* C3 as stated: url present and parseable, optional fields well-typed and
\* non-blank, is enough for Backend::try_from to succeed with the configured
\* or default booleans.
C3_Original ==
    (/\ Returned
     /\ FieldValid(Entry, "url")
     /\ Has(Entry, "override_host") =>
            (IsString(Entry, "override_host") /\ ~BlankField(Entry, "override_host"))
     /\ FieldValid(Entry, "cert_host")
     /\ FieldValid(Entry, "use_sni")
     /\ FieldValid(Entry, "grpc")
     /\ Unrecognized(Entry) = {})
    => /\ ret.ok
       /\ ret.v.use_sni = (IF Has(Entry, "use_sni") THEN Entry["use_sni"].val ELSE TRUE)
       /\ ret.v.grpc = (IF Has(Entry, "grpc") THEN Entry["grpc"].val ELSE FALSE)

\* C3 as amended: when, in addition, override_host (if present) is a legal
\* header value, Backend::try_from succeeds; use_sni is true and grpc is
\* false when their keys are absent, and the configured booleans otherwise.
C3_ValidEntryParses ==
    (Returned /\ FieldsValid(Entry) /\ Unrecognized(Entry) = {})
    => /\ ret.ok
       /\ ret.v.use_sni = (IF Has(Entry, "use_sni") THEN Entry["use_sni"].val ELSE TRUE)
       /\ ret.v.grpc = (IF Has(Entry, "grpc") THEN Entry["grpc"].val ELSE FALSE)

\* C3 witness: a valid entry with use_sni absent and grpc configured true
\* has been parsed.
C3_Witness ==
    /\ Returned /\ ret.ok
    /\ ~Has(Entry, "use_sni") /\ ret.v.use_sni = TRUE
    /\ Has(Entry, "grpc") /\ Entry["grpc"].val = TRUE /\ ret.v.grpc = TRUE
    /\ Has(Entry, "override_host")

\* C4: an entry without a url key yields MissingUrl, whatever else it holds.
C4_MissingUrl ==
    (Returned /\ ~Has(Entry, "url")) => ret = Err([err |-> "MissingUrl"])

\* C4 witness: MissingUrl was returned for an entry that also has a blank
\* cert_host, an ill-typed use_sni and an unrecognized key.
C4_Witness ==
    /\ Returned /\ ~Has(Entry, "url")
    /\ BlankField(Entry, "cert_host")
    /\ Has(Entry, "use_sni") /\ ~FieldValid(Entry, "use_sni")
    /\ Unrecognized(Entry) # {}
    /\ ret = Err([err |-> "MissingUrl"])

\* C5 as stated: every entry with a key outside the five recognized ones
\* yields UnrecognizedKey naming such a key.
C5_Original ==
    (Returned /\ Unrecognized(Entry) # {})
    => /\ ~ret.ok
       /\ ret.e.err = "UnrecognizedKey"
       /\ ret.e.key \in Unrecognized(Entry)

\* C5 as amended: an entry with a key outside the five recognized ones, and
\* whose recognized fields all validate, yields UnrecognizedKey naming such
\* a key; when a recognized field is missing or invalid the result is an
\* error too, but that field's.
C5_UnrecognizedKey ==
    (Returned /\ Unrecognized(Entry) # {})
    => /\ ~ret.ok
       /\ FieldsValid(Entry) =>
            (ret.e.err = "UnrecognizedKey" /\ ret.e.key \in Unrecognized(Entry))
       /\ ~FieldsValid(Entry) => ret.e.err # "UnrecognizedKey"

\* C5 witness: UnrecognizedKey was returned for an entry with two unknown
\* keys beside valid recognized fields.
C5_Witness ==
    /\ Returned /\ Unrecognized(Entry) = ExtraKeys
    /\ Has(Entry, "grpc") /\ Has(Entry, "cert_host")
    /\ ~ret.ok /\ ret.e.err = "UnrecognizedKey"

\* C6 as stated: a blank override_host always yields EmptyOverrideHost and
\* a blank cert_host always yields EmptyCertHost.
C6_Original ==
    Returned =>
        /\ BlankField(Entry, "override_host") => ret = Err([err |-> "EmptyOverrideHost"])
        /\ BlankField(Entry, "cert_host") => ret = Err([err |-> "EmptyCertHost"])

\* C6 as amended: a blank override_host yields EmptyOverrideHost when url is
\* valid, a blank cert_host yields EmptyCertHost when url and override_host
\* are valid, and an entry with a blank override_host or cert_host is never
\* accepted.
C6_BlankHostRejected ==
    Returned =>
        /\ (BlankField(Entry, "override_host") /\ FieldValid(Entry, "url"))
                => ret = Err([err |-> "EmptyOverrideHost"])
        /\ (/\ BlankField(Entry, "cert_host")
            /\ FieldValid(Entry, "url")
            /\ FieldValid(Entry, "override_host"))
                => ret = Err([err |-> "EmptyCertHost"])
        /\ (BlankField(Entry, "override_host") \/ BlankField(Entry, "cert_host"))
                => ~ret.ok

\* C6 witness: EmptyCertHost was returned for a whitespace-only (not empty)
\* cert_host.
C6_Witness ==
    /\ Returned
    /\ BlankField(Entry, "cert_host") /\ Entry["cert_host"].val # <<>>
    /\ ret = Err([err |-> "EmptyCertHost"])

\* C6 second witness: EmptyOverrideHost for a whitespace-only override_host.
C6_WitnessOverrideHost ==
    /\ Returned
    /\ BlankField(Entry, "override_host") /\ Entry["override_host"].val # <<>>
    /\ ret = Err([err |-> "EmptyOverrideHost"])

\* C7: every Backend the parser produces, and so every Backend of a
\* returned BackendsConfig, has client_cert = None and handler = None.
C7_NoCertNoHandler ==
    /\ (pc = "return" /\ ret.ok) =>
            (ret.v.client_cert = None /\ ret.v.handler = None)
    /\ \A n \in DOMAIN collected :
            collected[n].client_cert = None /\ collected[n].handler = None
    /\ (pc = "done" /\ result.ok) =>
            \A n \in DOMAIN result.v :
                result.v[n].client_cert = None /\ result.v[n].handler = None

\* C7 witness: a BackendsConfig was returned that holds a Backend with a
\* cert_host and an override_host.
C7_Witness ==
    /\ pc = "done" /\ result.ok
    /\ \E n \in DOMAIN result.v :
            result.v[n].cert_host # None /\ result.v[n].override_host # None

\* C8: on success the returned map has exactly the names of the input table,
\* and under each name the Backend parsed from that name's own entry.
C8_NamesAndBackends ==
    (pc = "done" /\ result.ok) =>
        /\ DOMAIN result.v = DOMAIN table
        /\ \A n \in DOMAIN table : result.v[n] = EntryBackend(table[n].val)

\* C8 witness: a successful conversion of two entries into two different
\* Backends.
C8_Witness ==
    /\ pc = "done" /\ result.ok
    /\ DOMAIN table = {"a", "b"}
    /\ result.v["a"] # result.v["b"]

\* C9: within an entry the fields are checked in the order url,
\* override_host, cert_host, use_sni, grpc, then leftover keys; the earliest
\* invalid field gives the error, the fields after it are left unchecked
\* (still in the working table), and UnrecognizedKey is returned only when
\* every recognized field is valid.
C9_FieldOrder ==
    Returned =>
        IF ~FieldsValid(Entry)
        THEN LET i == FirstInvalid(Entry)
             IN /\ ret = Err(FieldError(Entry, ClaimedOrder[i]))
                /\ DOMAIN toml =
                     DOMAIN Entry \ {ClaimedOrder[j] : j \in 1..i}
        ELSE /\ DOMAIN toml = Unrecognized(Entry)
             /\ ret.ok <=> Unrecognized(Entry) = {}
             /\ ~ret.ok => ret.e.err = "UnrecognizedKey"

\* C9 witness: cert_host, use_sni and grpc are all invalid and an unknown
\* key is present; the error is cert_host's and the later fields are still
\* in the working table.
C9_Witness ==
    /\ Returned
    /\ InvalidAt(Entry) = {3, 4, 5}
    /\ Unrecognized(Entry) # {}
    /\ ret = Err([err |-> "InvalidCertHostEntry"])
    /\ {"use_sni", "grpc"} \subseteq DOMAIN toml

C10_WitnessOk ==
    /\ pc = "done" /\ Len(outcomes) >= 1
    /\ result.ok /\ DOMAIN result.v # {}

====
